---- MODULE Spec2Model ----
(***************************************************************************)
(* Model of parcels/nemo_grid.py (class NEMOGrid: NetCDF write, read,      *)
(* shared particle list) and of the particle runs exercised by             *)
(* parcels/examples/example_globcurrent.py.                                *)
(*                                                                         *)
(* Indexing: Python index k of an array is index k+1 of the sequence that  *)
(* models it.  A 2-D array is a sequence of rows; a NetCDF variable with   *)
(* dimensions (time_counter, depth, y, x) is data[t][d][y][x].             *)
(***************************************************************************)
EXTENDS Integers, Sequences, FiniteSets, TLC

VARIABLES
    grids,      \* the NEMOGrid instances, each its instance attribute dictionary
    fs,         \* the file system: file name -> NetCDF file contents
    heap,       \* the Python list objects; heap[1] is the class attribute NEMOGrid._particles
    added,      \* history of the add_particle calls, in call order: the particle,
                \* the grid it was added through, the number of grids at the call
    handles,    \* the Dataset objects that are open: the file, the mode, and the
                \* grid that holds it, 0 when what holds it is the traceback of a
                \* call that raised
    library,    \* what the netCDF4 library of the build does with valid_min and
                \* valid_max when a variable is read; "unread" until a read shows it
    last,       \* the last NEMOGrid call: its operation, the grid it was made on (the
                \* grid it returned, for a constructor) and the exception it raised
    test,       \* the test of example_globcurrent.py being run, with its parameters
    runs,       \* the execute calls of the test: particle set name -> the name of its
                \* field set, its place in the order of the calls, particles, status
    fieldsets   \* the field set objects of the test: name -> field set

nemoVars == <<grids, fs, handles, library, heap, added, last>>
engineVars == <<test, runs, fieldsets>>
vars == <<grids, fs, handles, library, heap, added, last, test, runs, fieldsets>>

----------------------------------------------------------------------------
(* Bounds of the model *)

MaxX == 4
MaxY == 4
MaxDepth == 2
MaxTime == 2
MaxGrids == 2
MaxAdds == 2
NFiles == 6
NSeeds == 2

----------------------------------------------------------------------------
(* Floating-point values.  A value is a number (an integer-valued double), *)
(* NaN, the fill value of a NetCDF cell that was never written, or the     *)
(* masked element of an array read from a file.                            *)

Num(n) == [k |-> "num", v |-> n]
NaN == [k |-> "nan", v |-> 0]
Fill == [k |-> "fill", v |-> 0]

\* an element of a masked array that is masked
Masked == [k |-> "masked", v |-> 0]

isnan(a) == a.k = "nan"

\* Python's == on floats: NaN equals nothing, itself included
PyEq(a, b) == a.k = "num" /\ b.k = "num" /\ a.v = b.v

Abs(n) == IF n < 0 THEN -n ELSE n

\* distance between neighbouring float32 values at magnitude a (24-bit significand)
RECURSIVE Ulp32(_)
Ulp32(a) == IF a < 16777216 THEN 1 ELSE 2 * Ulp32(a \div 2)

\* the float32 nearest to the integer n, ties to the even significand
RoundF32(n) ==
    LET a == Abs(n)
        s == Ulp32(a)
        q == a \div s
        r == a % s
        up == IF 2 * r > s \/ (2 * r = s /\ q % 2 = 1) THEN 1 ELSE 0
        m == (q + up) * s
    IN IF n < 0 THEN -m ELSE m

\* a float32 variable keeps every value as float32
F32Identity(a) == a

F32(a) == IF a.k = "num" THEN Num(RoundF32(a.v)) ELSE a

F32Seq(s) == [i \in 1..Len(s) |-> F32(s[i])]
F32Array(A) == [r \in 1..Len(A) |-> F32Seq(A[r])]

\* np.transpose of a 2-D array
TransposeIdentity(A) == A

Transpose(A) ==
    IF Len(A) = 0 THEN <<>>
    ELSE [c \in 1..Len(A[1]) |-> [r \in 1..Len(A) |-> A[r][c]]]

\* A[np.isnan(A)] = 0.
NanToZeroSkipped(A) == A

NanToZero(A) ==
    [r \in 1..Len(A) |-> [c \in 1..Len(A[r]) |-> IF isnan(A[r][c]) THEN Num(0) ELSE A[r][c]]]

Last(s) == s[Len(s)]

----------------------------------------------------------------------------
(* Python attribute lookup on a NEMOGrid instance *)

None == [k |-> "none", v |-> 0]

\* the class attributes of NEMOGrid; _particles is a reference to heap[1]
ClassAttrs ==
    [x |-> 0, y |-> 0, depth |-> None, time_counter |-> None,
     lon_u |-> None, lat_u |-> None, lon_v |-> None, lat_v |-> None,
     U |-> None, V |-> None, _particles |-> 1]

\* self.<name>: the instance dictionary first, the class after it
Attr(g, name) == IF name \in DOMAIN g THEN g[name] ELSE ClassAttrs[name]

\* the list object self._particles refers to
ParticlesOf(g) == heap[Attr(g, "_particles")]

----------------------------------------------------------------------------
(* NEMOGrid.write *)

NoCall == [op |-> "none", grid |-> 0, raised |-> "none"]

UFileName == "grid_U.nc"
VFileName == "grid_V.nc"

\* nav_lon[y, :] = lon for every y
NavLon(lon, lat) == [y \in 1..Len(lat) |-> F32Seq(lon)]

\* nav_lat[:, x] = lat for every x
NavLat(lon, lat) == [y \in 1..Len(lat) |-> [x \in 1..Len(lon) |-> F32(lat[y])]]

FillArray(nx, ny) == [y \in 1..ny |-> [x \in 1..nx |-> Fill]]

\* the dimensions of the velocity variable
VelocityDimsXY(depthname) == <<"time_counter", depthname, "x", "y">>

VelocityDims(depthname) == <<"time_counter", depthname, "y", "x">>

\* var[0, 0, :, :] = np.transpose(field); the unlimited dimension has the
\* length of time_counter, every other slab keeps the fill value
VelocityData(field, nx, ny, nd, nt) ==
    [t \in 1..nt |-> [d \in 1..nd |->
        IF t = 1 /\ d = 1 THEN F32Array(Transpose(field)) ELSE FillArray(nx, ny)]]

\* the attributes valid_min, valid_max of nav_lon and nav_lat in the V and the U file
VValid(g) ==
    [lon_min |-> Attr(g, "lon_u")[1], lon_max |-> Last(Attr(g, "lon_u")),
     lat_min |-> Attr(g, "lat_u")[1], lat_max |-> Last(Attr(g, "lat_u"))]

UValid(g) ==
    [lon_min |-> Attr(g, "lon_u")[1], lon_max |-> Last(Attr(g, "lon_u")),
     lat_min |-> Attr(g, "lat_u")[1], lat_max |-> Last(Attr(g, "lat_u"))]

\* the file '<filename>_U.nc' written from grid g
WriteU(g) ==
    LET lon == Attr(g, "lon_u")
        lat == Attr(g, "lat_u")
        nd == Len(Attr(g, "depth"))
        nt == Len(Attr(g, "time_counter"))
        valid == UValid(g)
    IN [dims |-> [x |-> Len(lon), y |-> Len(lat), depthu |-> nd, time_counter |-> nt],
        vars |->
          [nav_lon |-> [dimensions |-> <<"y", "x">>, dtype |-> "f4",
                        data |-> NavLon(lon, lat),
                        valid_min |-> valid.lon_min, valid_max |-> valid.lon_max],
           nav_lat |-> [dimensions |-> <<"y", "x">>, dtype |-> "f4",
                        data |-> NavLat(lon, lat),
                        valid_min |-> valid.lat_min, valid_max |-> valid.lat_max],
           depthu |-> [dimensions |-> <<"depthu">>, dtype |-> "f4",
                       data |-> F32Seq(Attr(g, "depth"))],
           time_counter |-> [dimensions |-> <<"time_counter">>, dtype |-> "f8",
                             data |-> Attr(g, "time_counter")],
           vozocrtx |-> [dimensions |-> VelocityDims("depthu"), dtype |-> "f4",
                         data |-> VelocityData(Attr(g, "U"), Len(lon), Len(lat), nd, nt)]]]

\* the file '<filename>_V.nc' written from grid g
WriteV(g) ==
    LET lon == Attr(g, "lon_v")
        lat == Attr(g, "lat_v")
        nd == Len(Attr(g, "depth"))
        nt == Len(Attr(g, "time_counter"))
        valid == VValid(g)
    IN [dims |-> [x |-> Len(lon), y |-> Len(lat), depthv |-> nd, time_counter |-> nt],
        vars |->
          [nav_lon |-> [dimensions |-> <<"y", "x">>, dtype |-> "f4",
                        data |-> NavLon(lon, lat),
                        valid_min |-> valid.lon_min, valid_max |-> valid.lon_max],
           nav_lat |-> [dimensions |-> <<"y", "x">>, dtype |-> "f4",
                        data |-> NavLat(lon, lat),
                        valid_min |-> valid.lat_min, valid_max |-> valid.lat_max],
           depthv |-> [dimensions |-> <<"depthv">>, dtype |-> "f4",
                       data |-> F32Seq(Attr(g, "depth"))],
           time_counter |-> [dimensions |-> <<"time_counter">>, dtype |-> "f8",
                             data |-> Attr(g, "time_counter")],
           vomecrty |-> [dimensions |-> VelocityDims("depthv"), dtype |-> "f4",
                         data |-> VelocityData(Attr(g, "V"), Len(lon), Len(lat), nd, nt)]]]

\* self.<name> is None: no instance attribute hides the class attribute
IsNone(g, name) == name \notin DOMAIN g

\* a Dataset on the file is open in the process
IsOpen(file) == \E h \in handles : h.file = file

\* Dataset(file, 'w') raises on a file that is open in the process: the library
\* does not truncate an open file, and fails before it touches the file
CannotTruncate(file) == IsOpen(file)

\* the exception of the first statement of write that raises, "none" when write
\* returns: Dataset(..., 'w') on an open file is an IOError, len(None) a
\* TypeError, None.size an AttributeError
WriteError(g) ==
    IF CannotTruncate(UFileName) THEN "IOError"
    ELSE IF IsNone(g, "lon_u") \/ IsNone(g, "lat_u") THEN "TypeError"
    ELSE IF IsNone(g, "depth") THEN "AttributeError"
    ELSE IF CannotTruncate(VFileName) THEN "IOError"
    ELSE "none"

\* write raises between the Dataset call on the U file and dset_u.close()
RaisesInUBlock(g) ==
    /\ ~CannotTruncate(UFileName)
    /\ IsNone(g, "lon_u") \/ IsNone(g, "lat_u") \/ IsNone(g, "depth")

NoFile == [dims |-> [n \in {} |-> 0], vars |-> [n \in {} |-> None]]

\* '<filename>_U.nc' as a write that raises in the U block leaves it: opened in
\* mode 'w', with the dimensions created before the statement that raised and
\* no variable
PartialU(g) ==
    IF IsNone(g, "lon_u") THEN NoFile
    ELSE IF IsNone(g, "lat_u")
    THEN [NoFile EXCEPT !.dims = [n \in {"x"} |-> Len(Attr(g, "lon_u"))]]
    ELSE [NoFile EXCEPT !.dims = [n \in {"x", "y"} |->
                                    IF n = "x" THEN Len(Attr(g, "lon_u"))
                                    ELSE Len(Attr(g, "lat_u"))]]

\* grid.write(filename) returns: both files are written and closed
Write(i) ==
    /\ i \in 1..Len(grids)
    /\ WriteError(grids[i]) = "none"
    /\ fs' = (UFileName :> WriteU(grids[i])) @@ (VFileName :> WriteV(grids[i])) @@ fs
    /\ last' = [op |-> "write", grid |-> i, raised |-> "none"]
    /\ UNCHANGED <<grids, handles, library, heap, added, test, runs, fieldsets>>

\* the Dataset objects that no grid holds: write has no statement that closes
\* dset_u on a raising path and __init__ none that closes self.dset_u and
\* self.dset_v, so they are closed when the interpreter frees the frame or the
\* half-built object the traceback refers to
Unowned(mode) == {h \in handles : h.grid = 0 /\ h.mode = mode}

\* the Dataset objects a call that raised leaves open: none when they are freed
\* as the exception is handled, all of them when the traceback outlives the call
KeptOpen(opened) == {{}, opened}

\* grid.write(filename) raises.  At the Dataset call on the U file: no file is
\* touched.  In the U block: the U file was opened for writing, the V file is
\* not reached, and dset_u is open until the frame of the call is freed.  At
\* the Dataset call on the V file: the U file is written and closed.
WriteRaises(i) ==
    /\ i \in 1..Len(grids)
    /\ WriteError(grids[i]) # "none"
    /\ fs' = IF CannotTruncate(UFileName) THEN fs
             ELSE IF RaisesInUBlock(grids[i]) THEN (UFileName :> PartialU(grids[i])) @@ fs
             ELSE (UFileName :> WriteU(grids[i])) @@ fs
    /\ \E kept \in KeptOpen(IF RaisesInUBlock(grids[i])
                             THEN {[file |-> UFileName, mode |-> "w", grid |-> 0]}
                             ELSE {}) :
          handles' = handles \cup kept
    /\ last' = [op |-> "write", grid |-> i, raised |-> WriteError(grids[i])]
    /\ UNCHANGED <<grids, library, heap, added, test, runs, fieldsets>>

\* the interpreter frees the frame of a write that raised (mode "w"), or the
\* object a constructor that raised was building (mode "r"): the Dataset
\* objects it held are closed
Deallocate(mode) ==
    /\ Unowned(mode) # {}
    /\ handles' = handles \ Unowned(mode)
    /\ UNCHANGED <<grids, fs, library, heap, added, last, test, runs, fieldsets>>

----------------------------------------------------------------------------
(* NEMOGrid.__init__ *)

\* dset[name][0, 0, :, :]
ReadSlab(var) == var.data[1][1]

\* RectBivariateSpline(x, y, z, kx=degree, ky=degree): the spline needs more
\* than degree points on each axis
SplineOK(x, y, degree) == Len(x) > degree /\ Len(y) > degree

Column(A, c) == [r \in 1..Len(A) |-> A[r][c]]

\* what a netCDF4 library does with valid_min and valid_max on a read: nothing,
\* or it masks the values outside them, the bounds cast to the type of the
\* variable or taken as stored
Libraries == {"ignores", "float32", "float64"}

\* the behaviours the build can still have
Known == IF library = "unread" THEN Libraries ELSE {library}

OutOfRange(lib, a, var) ==
    /\ lib # "ignores"
    /\ a.k = "num"
    /\ LET lo == IF lib = "float32" THEN F32(var.valid_min) ELSE var.valid_min
           hi == IF lib = "float32" THEN F32(var.valid_max) ELSE var.valid_max
       IN a.v < lo.v \/ a.v > hi.v

\* var[...] of a coordinate variable
ReadNav(lib, var) ==
    [y \in 1..Len(var.data) |-> [x \in 1..Len(var.data[y]) |->
        IF OutOfRange(lib, var.data[y][x], var) THEN Masked ELSE var.data[y][x]]]

\* the instance attributes set by NEMOGrid(filename, degree); lon_u, lat_u,
\* lon_v, lat_v are variables of the open files, here with what reading them gives
FromFile(degree, lib) ==
    LET dset_u == fs[UFileName]
        dset_v == fs[VFileName]
        lon_u == ReadNav(lib, dset_u.vars.nav_lon)
        lat_u == ReadNav(lib, dset_u.vars.nav_lat)
        lon_v == ReadNav(lib, dset_v.vars.nav_lon)
        lat_v == ReadNav(lib, dset_v.vars.nav_lat)
        U == NanToZero(ReadSlab(dset_u.vars.vozocrtx))
        V == NanToZero(ReadSlab(dset_v.vars.vomecrty))
    IN [dset_u |-> UFileName, dset_v |-> VFileName,
        lon_u |-> lon_u, lat_u |-> lat_u, lon_v |-> lon_v, lat_v |-> lat_v,
        U |-> U, V |-> V,
        interp_u |-> [x |-> Column(lat_u, 1), y |-> lon_u[1], z |-> U, kx |-> degree, ky |-> degree],
        interp_v |-> [x |-> Column(lat_v, 1), y |-> lon_v[1], z |-> V, kx |-> degree, ky |-> degree]]

CanBuild(degree) ==
    LET a == FromFile(degree, "ignores")
    IN /\ SplineOK(a.interp_u.x, a.interp_u.y, degree)
       /\ SplineOK(a.interp_v.x, a.interp_v.y, degree)

Degrees == {1, 3}

\* the exception of the first statement of NEMOGrid(filename, degree) that
\* raises, "none" when none does: Dataset(..., 'r') of a missing file,
\* dset[name] of a variable the file does not hold, a spline on too few points
ConstructError(degree) ==
    IF UFileName \notin DOMAIN fs \/ VFileName \notin DOMAIN fs THEN "IOError"
    ELSE IF \/ ~({"nav_lon", "nav_lat"} \subseteq DOMAIN fs[UFileName].vars)
            \/ ~({"nav_lon", "nav_lat"} \subseteq DOMAIN fs[VFileName].vars)
            \/ "vozocrtx" \notin DOMAIN fs[UFileName].vars
            \/ "vomecrty" \notin DOMAIN fs[VFileName].vars
    THEN "IndexError"
    ELSE IF ~CanBuild(degree) THEN "ValueError"
    ELSE "none"

HasMasked(axis) == \E k \in 1..Len(axis) : axis[k] = Masked

\* a coordinate axis handed to RectBivariateSpline holds a masked element: the
\* spline either takes the axis or rejects it
AxisMasked(degree, lib) ==
    LET a == FromFile(degree, lib)
    IN \/ HasMasked(a.interp_u.x) \/ HasMasked(a.interp_u.y)
       \/ HasMasked(a.interp_v.x) \/ HasMasked(a.interp_v.y)

\* self.dset_u and self.dset_v: opened for reading, open as long as the grid lives
OpenedBy(g, files) == {[file |-> f, mode |-> "r", grid |-> g] : f \in files}

\* a Dataset opened for writing on the file was not closed
OpenForWrite(file) == \E h \in handles : h.file = file /\ h.mode = "w"

\* the files the constructor has opened when it raises: none when the U file is
\* missing, the U file when the V file is missing, both after that
OpenedBeforeRaise ==
    IF UFileName \notin DOMAIN fs THEN {}
    ELSE IF VFileName \notin DOMAIN fs THEN {UFileName}
    ELSE {UFileName, VFileName}

\* the ways NEMOGrid(filename, degree) can raise: the exception, the behaviour
\* of the library the call has shown, and the Dataset objects it has opened.
\* Dataset(..., 'r') of a file that a Dataset opened for writing has not closed
\* either raises or gives the file as that Dataset has it.
RaisingOutcomes(degree) ==
    (IF OpenForWrite(UFileName)
     THEN {[raised |-> "IOError", library |-> library, opened |-> {}]}
     ELSE {})
    \cup
    (IF ConstructError(degree) # "none"
     THEN {[raised |-> ConstructError(degree), library |-> library,
            opened |-> OpenedBy(0, OpenedBeforeRaise)]}
     ELSE {[raised |-> "ValueError", library |-> lib,
            opened |-> OpenedBy(0, OpenedBeforeRaise)] :
              lib \in {l \in Known : AxisMasked(degree, l)}})

\* NEMOGrid(filename, degree) returns a grid
Construct(degree) ==
    /\ Len(grids) < MaxGrids
    /\ ConstructError(degree) = "none"
    /\ \E lib \in Known :
          /\ grids' = Append(grids, FromFile(degree, lib))
          /\ library' = lib
    /\ handles' = handles \cup OpenedBy(Len(grids) + 1, {UFileName, VFileName})
    /\ last' = [op |-> "construct", grid |-> Len(grids) + 1, raised |-> "none"]
    /\ UNCHANGED <<fs, heap, added, test, runs, fieldsets>>

\* NEMOGrid(filename, degree) raises.  The Dataset objects it has opened are
\* attributes of the object under construction, open until that object is freed.
ConstructRaises(degree) ==
    /\ \E out \in RaisingOutcomes(degree) :
          /\ last' = [op |-> "construct", grid |-> 0, raised |-> out.raised]
          /\ library' = out.library
          /\ \E kept \in KeptOpen(out.opened) : handles' = handles \cup kept
    /\ UNCHANGED <<grids, fs, heap, added, test, runs, fieldsets>>

\* NEMOGrid(): no file name, no instance attribute is set
ConstructEmpty ==
    /\ Len(grids) < MaxGrids
    /\ grids' = Append(grids, [a \in {} |-> None])
    /\ last' = [op |-> "construct", grid |-> Len(grids) + 1, raised |-> "none"]
    /\ UNCHANGED <<fs, handles, library, heap, added, test, runs, fieldsets>>

----------------------------------------------------------------------------
(* NEMOGrid.add_particle *)

Particles == {"p", "q"}

\* self._particles = self._particles + [p]: a new list bound to the instance
AddParticleRebinding(h, gs, i, p) ==
    [heap |-> Append(h, Append(h[Attr(gs[i], "_particles")], p)),
     grids |-> [gs EXCEPT ![i] = ("_particles" :> (Len(h) + 1)) @@ gs[i]]]

\* self._particles.append(p): the list object is changed in place
AddParticleEffect(h, gs, i, p) ==
    [heap |-> [h EXCEPT ![Attr(gs[i], "_particles")] = Append(@, p)],
     grids |-> gs]

add_particle(i, p) ==
    /\ i \in 1..Len(grids)
    /\ Len(added) < MaxAdds
    /\ LET e == AddParticleEffect(heap, grids, i, p)
       IN heap' = e.heap /\ grids' = e.grids
    /\ added' = Append(added, [p |-> p, via |-> i, ngrids |-> Len(grids)])
    /\ last' = [op |-> "add_particle", grid |-> i, raised |-> "none"]
    /\ UNCHANGED <<fs, handles, library, test, runs, fieldsets>>

----------------------------------------------------------------------------
(* The grids a caller builds in memory before write *)

\* strictly increasing coordinates starting at base
Coord(base, n) == [i \in 1..n |-> Num(base + 4 * (i - 1))]

CoordBases == {0, 16777217}

\* a value float32 cannot hold
Big == Num(16777219)

\* a field indexed [x, y] with distinct entries, one of them replaced by special
Field(nx, ny, sign, cell, special) ==
    [i \in 1..nx |-> [j \in 1..ny |->
        IF <<i, j>> = cell THEN special ELSE Num(sign * (10 * i + j))]]

UFields(nx, ny) ==
    {Field(nx, ny, 1, <<0, 0>>, NaN), Field(nx, ny, 1, <<nx, 1>>, NaN),
     Field(nx, ny, 1, <<1, ny>>, Big)}

VFields(nx, ny) ==
    {Field(nx, ny, -1, <<nx, ny>>, NaN), Field(nx, ny, -1, <<1, ny>>, Big)}

WriterGrid(bu, bv, nx, ny, nd, nt, fu, fv) ==
    [lon_u |-> Coord(bu, nx), lat_u |-> Coord(bu + 100, ny),
     lon_v |-> Coord(bv, nx), lat_v |-> Coord(bv + 100, ny),
     U |-> fu, V |-> fv,
     depth |-> [d \in 1..nd |-> Num(5 * d)],
     time_counter |-> [t \in 1..nt |-> Num(86400 * (t - 1))]]

WriterGrids ==
    UNION {{WriterGrid(bu, bv, s[1], s[2], nd, nt, fu, fv) :
                bu \in CoordBases, bv \in CoordBases,
                nd \in {1, MaxDepth}, nt \in {1, MaxTime},
                fu \in UFields(s[1], s[2]), fv \in VFields(s[1], s[2])} :
           s \in (2..MaxX) \X (2..MaxY)}

InitIO ==
    /\ \E w \in WriterGrids : grids = <<w>>
    /\ fs = [n \in {} |-> None]
    /\ handles = {}
    /\ library = "unread"
    /\ heap = << <<>> >>
    /\ added = <<>>
    /\ last = NoCall
    /\ test = None
    /\ runs = <<>>
    /\ fieldsets = <<>>

NextIO ==
    \/ \E i \in 1..Len(grids) : Write(i)
    \/ \E i \in 1..Len(grids) : WriteRaises(i)
    \/ \E d \in Degrees : Construct(d)
    \/ \E d \in Degrees : ConstructRaises(d)
    \/ \E mode \in {"r", "w"} : Deallocate(mode)

SpecIO == InitIO /\ [][NextIO]_vars

\* one small grid, and every operation of the class
InitParticles ==
    /\ grids = <<WriterGrid(0, 16777217, 2, 3, 1, 1,
                            Field(2, 3, 1, <<1, 1>>, NaN), Field(2, 3, -1, <<2, 3>>, Big))>>
    /\ fs = [n \in {} |-> None]
    /\ handles = {}
    /\ library = "unread"
    /\ heap = << <<>> >>
    /\ added = <<>>
    /\ last = NoCall
    /\ test = None
    /\ runs = <<>>
    /\ fieldsets = <<>>

NextParticles ==
    \/ \E i \in 1..Len(grids) : Write(i)
    \/ \E i \in 1..Len(grids) : WriteRaises(i)
    \/ \E d \in Degrees : Construct(d)
    \/ \E d \in Degrees : ConstructRaises(d)
    \/ \E mode \in {"r", "w"} : Deallocate(mode)
    \/ ConstructEmpty
    \/ \E i \in 1..Len(grids), p \in Particles : add_particle(i, p)

SpecParticles == InitParticles /\ [][NextParticles]_vars

----------------------------------------------------------------------------
(* Properties of NEMOGrid *)

\* write has just returned: the files are as it left them
WriteReturned == last.op = "write" /\ last.raised = "none"

\* NEMOGrid(filename) has just returned grid Read: the files are as it read them
ConstructReturned ==
    last.op = "construct" /\ last.raised = "none" /\ "dset_u" \in DOMAIN grids[last.grid]

Read == grids[last.grid]

\* the grids built by NEMOGrid(filename)
FromFileGrids == {i \in 1..Len(grids) : "dset_u" \in DOMAIN grids[i]}

\* the grid the files were written from: the first grid is the one that holds
\* coordinates, fields, depth and time_counter, write raises on every other
Writer == grids[1]

\* A is a 2-D array of ny rows and nx columns
HasShape(A, ny, nx) == Len(A) = ny /\ \A r \in 1..ny : Len(A[r]) = nx

NavLayoutOK(var) == var.dimensions = <<"y", "x">>

VelocityLayoutOK(file, var, depthname) ==
    /\ var.dimensions = <<"time_counter", depthname, "y", "x">>
    /\ Len(var.data) = file.dims.time_counter
    /\ \A t \in 1..Len(var.data) :
          /\ Len(var.data[t]) = file.dims[depthname]
          /\ \A d \in 1..Len(var.data[t]) :
                HasShape(var.data[t][d], file.dims.y, file.dims.x)

\* g.U is the (y, x) slab at time index 0, depth index 0 of the file variable
ReadsFirstSlab(A, var) ==
    /\ HasShape(A, Len(var.data[1][1]), Len(var.data[1][1][1]))
    /\ \A y \in 1..Len(A) : \A x \in 1..Len(A[y]) :
          ~isnan(var.data[1][1][y][x]) => A[y][x] = var.data[1][1][y][x]

\* C5: write produces '<filename>_U.nc' with nav_lon, nav_lat on (y, x), depthu,
\* time_counter and vozocrtx on (time_counter, depthu, y, x), and '<filename>_V.nc'
\* with depthv and vomecrty on (time_counter, depthv, y, x); the constructor reads
\* vozocrtx and vomecrty at time index 0 and depth index 0 as (y, x) arrays.
C5_NemoLayout ==
    LET fu == fs[UFileName]
        fv == fs[VFileName]
    IN /\ WriteReturned =>
           /\ DOMAIN fu.vars = {"nav_lon", "nav_lat", "depthu", "time_counter", "vozocrtx"}
           /\ DOMAIN fv.vars = {"nav_lon", "nav_lat", "depthv", "time_counter", "vomecrty"}
           /\ NavLayoutOK(fu.vars.nav_lon) /\ NavLayoutOK(fu.vars.nav_lat)
           /\ NavLayoutOK(fv.vars.nav_lon) /\ NavLayoutOK(fv.vars.nav_lat)
           /\ HasShape(fu.vars.nav_lon.data, fu.dims.y, fu.dims.x)
           /\ HasShape(fu.vars.nav_lat.data, fu.dims.y, fu.dims.x)
           /\ HasShape(fv.vars.nav_lon.data, fv.dims.y, fv.dims.x)
           /\ HasShape(fv.vars.nav_lat.data, fv.dims.y, fv.dims.x)
           /\ VelocityLayoutOK(fu, fu.vars.vozocrtx, "depthu")
           /\ VelocityLayoutOK(fv, fv.vars.vomecrty, "depthv")
       /\ ConstructReturned =>
           /\ ReadsFirstSlab(Read.U, fu.vars.vozocrtx)
           /\ ReadsFirstSlab(Read.V, fv.vars.vomecrty)

\* a grid was read from non-square files with more than one time and depth index
C5_Witness ==
    /\ ConstructReturned
    /\ fs[UFileName].dims.time_counter > 1 /\ fs[UFileName].dims.depthu > 1
    /\ fs[UFileName].dims.x # fs[UFileName].dims.y

NoNaN(A) == \A r \in 1..Len(A) : \A c \in 1..Len(A[r]) : ~isnan(A[r][c])

\* A is the slab of var with every NaN replaced by 0 and nothing else changed
ReplacesNaN(A, var) ==
    /\ HasShape(A, Len(var.data[1][1]), Len(var.data[1][1][1]))
    /\ \A y \in 1..Len(A) : \A x \in 1..Len(A[y]) :
          IF isnan(var.data[1][1][y][x])
          THEN A[y][x] = Num(0)
          ELSE A[y][x] = var.data[1][1][y][x]

\* C6: after NEMOGrid(filename), U and V hold no NaN: a NaN of the file is 0, every
\* other element keeps its value, and the arrays handed to the U and V interpolators
\* hold no NaN either.
C6_NoNaNAfterConstruct ==
    /\ \A i \in FromFileGrids :
          /\ NoNaN(grids[i].U) /\ NoNaN(grids[i].V)
          /\ NoNaN(grids[i].interp_u.z) /\ NoNaN(grids[i].interp_v.z)
    /\ ConstructReturned =>
          /\ ReplacesNaN(Read.U, fs[UFileName].vars.vozocrtx)
          /\ ReplacesNaN(Read.V, fs[VFileName].vars.vomecrty)

\* a grid was read from files whose U and V slabs both hold a NaN
C6_Witness ==
    /\ ConstructReturned
    /\ ~NoNaN(ReadSlab(fs[UFileName].vars.vozocrtx))
    /\ ~NoNaN(ReadSlab(fs[VFileName].vars.vomecrty))

\* read[j, i] == conv(written[i, j]) for every x index i and y index j, NaN apart
RoundTrip(read, written, conv(_)) ==
    /\ HasShape(read, Len(written[1]), Len(written))
    /\ \A i \in 1..Len(written) : \A j \in 1..Len(written[i]) :
          ~isnan(written[i][j]) => PyEq(read[j][i], conv(written[i][j]))

AxisRoundTrip(read, written, conv(_)) ==
    /\ Len(read) = Len(written)
    /\ \A k \in 1..Len(written) : PyEq(read[k], conv(written[k]))

RoundTripAll(conv(_)) ==
    ConstructReturned =>
        /\ RoundTrip(Read.U, Writer.U, conv)
        /\ RoundTrip(Read.V, Writer.V, conv)
        /\ AxisRoundTrip(Column(Read.lat_u, 1), Writer.lat_u, conv)
        /\ AxisRoundTrip(Read.lon_u[1], Writer.lon_u, conv)
        /\ AxisRoundTrip(Column(Read.lat_v, 1), Writer.lat_v, conv)
        /\ AxisRoundTrip(Read.lon_v[1], Writer.lon_v, conv)

\* the value lies within valid_min and valid_max as the file stores them
InValidRange(a, var) == a.v >= var.valid_min.v /\ a.v <= var.valid_max.v

\* read[k] == float32(written[k]) wherever that value is in the valid range of var
AxisRoundTripValid(read, written, var) ==
    /\ Len(read) = Len(written)
    /\ \A k \in 1..Len(written) :
          InValidRange(F32(written[k]), var) => PyEq(read[k], F32(written[k]))

C9_SharedParticles ==
    \A i \in 1..Len(grids) :
        ParticlesOf(grids[i]) = [k \in 1..Len(added) |-> added[k].p]

\* particles were added through two different grids, one of them constructed
\* after the first particle was added
C9_Witness ==
    /\ Len(added) >= 2
    /\ \E a, b \in 1..Len(added) : added[a].via # added[b].via
    /\ added[1].ngrids < Len(grids)

\* C10: in each written file valid_min and valid_max of nav_lon and nav_lat are the
\* first and last element of that file's own coordinates: lon_u, lat_u for the U
\* file, lon_v, lat_v for the V file.
C10_ValidRangeOwnCoordinates ==
    WriteReturned =>
        LET nu == fs[UFileName].vars
            nv == fs[VFileName].vars
            g == grids[last.grid]
        IN /\ nu.nav_lon.valid_min = g.lon_u[1]
           /\ nu.nav_lon.valid_max = Last(g.lon_u)
           /\ nu.nav_lat.valid_min = g.lat_u[1]
           /\ nu.nav_lat.valid_max = Last(g.lat_u)
           /\ nv.nav_lon.valid_min = g.lon_v[1]
           /\ nv.nav_lon.valid_max = Last(g.lon_v)
           /\ nv.nav_lat.valid_min = g.lat_v[1]
           /\ nv.nav_lat.valid_max = Last(g.lat_v)

----------------------------------------------------------------------------
(* The GlobCurrent example data: one file per day, each holding one time   *)
(* slice of the two velocity variables on a lon x lat grid.  Positions are *)
(* grid coordinates, times are in units of a quarter of a day.             *)

Day == 4
StepDt == Day \div 2

LonSize == 81
LatSize == 41

Seeds == 1..NSeeds

\* sorted(glob(...)): the file of day k is the k-th
GlobFiles == [k \in 1..NFiles |-> k]

\* the value of a variable of the file of a day at a grid point
FileVar(seed, day, name, x, y) ==
    IF name = "eastward_eulerian_current_velocity"
    THEN ((5 * seed * day + 3 * x + y) % 25) - 12
    ELSE ((7 * day + x + 3 * seed * y) % 23) - 11

FileTime(day) == (day - 1) * Day

Range(s) == {s[i] : i \in 1..Len(s)}

\* the element of a one-element set: Only({e(x) : x \in {v}}) computes v once
Only(S) == CHOOSE v \in S : TRUE

----------------------------------------------------------------------------
(* FieldSet: the time axis is relative to the first slice; loaded lists    *)
(* the time slices held in memory.  A NetCDF-backed field set keeps the    *)
(* list of its files and reads slice i from the i-th file; an xarray-      *)
(* backed one keeps the dataset and reads slice i at index i of the        *)
(* dataset's time dimension.                                               *)

\* the variables of a data file
FileVariables ==
    {"eastward_eulerian_current_velocity", "northward_eulerian_current_velocity"}

\* the time variable counts from a reference date; xarray decodes it to a date
TimeOrigin == 100

DecodeTime(t) == TimeOrigin * Day + t

\* the slabs concatenated against the order of the time coordinate
open_mfdataset_reversed(files, seed) ==
    [seed |-> seed,
     time |-> [k \in 1..Len(files) |-> DecodeTime(FileTime(files[k]))],
     data_vars |-> [name \in FileVariables |->
                      [k \in 1..Len(files) |-> files[Len(files) + 1 - k]]]]

\* xr.open_mfdataset: the files concatenated along time, one time coordinate
\* and, for every variable, the slabs in the order of the time coordinate
open_mfdataset(files, seed) ==
    [seed |-> seed,
     time |-> [k \in 1..Len(files) |-> DecodeTime(FileTime(files[k]))],
     data_vars |-> [name \in FileVariables |-> [k \in 1..Len(files) |-> files[k]]]]

Loaded(n, deferred_load) == IF deferred_load THEN <<>> ELSE [i \in 1..n |-> i]

from_xarray_dataset(ds, variables, deferred_load, time_periodic) ==
    [backend |-> "xarray", ds |-> ds, variables |-> variables,
     deferred |-> deferred_load, periodic |-> time_periodic,
     time |-> [i \in 1..Len(ds.time) |-> ds.time[i] - ds.time[1]],
     loaded |-> Loaded(Len(ds.time), deferred_load)]

from_netcdf(files, seed, variables, deferred_load, time_periodic) ==
    [backend |-> "netcdf", seed |-> seed, files |-> files, variables |-> variables,
     deferred |-> deferred_load, periodic |-> time_periodic,
     time |-> [i \in 1..Len(files) |-> FileTime(files[i]) - FileTime(files[1])],
     loaded |-> Loaded(Len(files), deferred_load)]

\* the value of field name (U or V) in time slice i, read from its source
ReadSlice(fset, i, name, x, y) ==
    IF fset.backend = "xarray"
    THEN FileVar(fset.ds.seed, fset.ds.data_vars[fset.variables[name]][i],
                 fset.variables[name], x, y)
    ELSE FileVar(fset.seed, fset.files[i], fset.variables[name], x, y)

NSlices(fset) == Len(fset.time)

\* time folded into one period of a time-periodic field set
FoldTime(fset, t) == IF fset.periodic > 0 THEN t % fset.periodic ELSE t

\* the slice at or before time tt
TimeIndex(fset, tt) ==
    CHOOSE i \in 1..NSlices(fset) :
        /\ fset.time[i] <= tt
        /\ \A j \in 1..NSlices(fset) : fset.time[j] <= tt => j <= i

\* the two slices that bracket time tt and the time between them
Bracket(fset, tt) ==
    LET n == NSlices(fset)
        i == TimeIndex(fset, tt)
    IN IF fset.periodic > 0
       THEN [lo |-> i, hi |-> IF i = n THEN 1 ELSE i + 1,
             span |-> (IF i = n THEN fset.periodic ELSE fset.time[i + 1]) - fset.time[i]]
       ELSE LET k == IF i = n THEN n - 1 ELSE i
            IN [lo |-> k, hi |-> k + 1, span |-> fset.time[k + 1] - fset.time[k]]

\* the three slices loaded when slice k is asked for and is not in memory
WindowFor(fset, k) ==
    LET n == NSlices(fset)
    IN IF fset.periodic > 0
       THEN <<k, (k % n) + 1, ((k + 1) % n) + 1>>
       ELSE LET s == IF k > n - 2 THEN n - 2 ELSE k
            IN <<s, s + 1, s + 2>>

\* deferred load: the slices around time t are loaded when they are asked for
EnsureLoaded(fset, t) ==
    IF ~fset.deferred THEN fset
    ELSE LET b == Bracket(fset, FoldTime(fset, t))
         IN IF b.lo \in Range(fset.loaded) /\ b.hi \in Range(fset.loaded)
            THEN fset
            ELSE [fset EXCEPT !.loaded = WindowFor(fset, b.lo)]

\* a slice is read from memory; a slice that is not there reads the first one held
Memory(fset, i, name, x, y) ==
    IF i \in Range(fset.loaded)
    THEN ReadSlice(fset, i, name, x, y)
    ELSE ReadSlice(fset, fset.loaded[1], name, x, y)

InTimeAxis(fset, t) ==
    fset.periodic > 0 \/ (t >= fset.time[1] /\ t <= fset.time[NSlices(fset)])

InDomain(x, y) == x \in 0..(LonSize - 1) /\ y \in 0..(LatSize - 1)

\* fieldset.<name>[t, y, x]: linear interpolation in time between two slices
Sample(fset, name, t, x, y) ==
    IF ~InTimeAxis(fset, t) THEN [code |-> "ErrorTimeExtrapolation", val |-> 0]
    ELSE IF ~InDomain(x, y) THEN [code |-> "ErrorOutOfBounds", val |-> 0]
    ELSE LET tt == FoldTime(fset, t)
             b == Bracket(fset, tt)
             r == tt - fset.time[b.lo]
             v0 == Memory(fset, b.lo, name, x, y)
             v1 == Memory(fset, b.hi, name, x, y)
         IN [code |-> "Success", val |-> (v0 * (b.span - r) + v1 * r) \div b.span]

\* both velocity components at once, after the slices for time t were loaded
SampleBoth(f, t, x, y) ==
    Only({[code |-> IF uv[1].code # "Success" THEN uv[1].code ELSE uv[2].code,
           u |-> uv[1].val, v |-> uv[2].val, fset |-> f] :
          uv \in {<<Sample(f, "U", t, x, y), Sample(f, "V", t, x, y)>>}})

SampleUV(fset, t, x, y) ==
    Only({SampleBoth(f, t, x, y) :
          f \in {IF InTimeAxis(fset, t) THEN EnsureLoaded(fset, t) ELSE fset}})

----------------------------------------------------------------------------
(* Kernels *)

Particle(id, lon, lat, time, timeSet, sample_var) ==
    [id |-> id, lon |-> lon, lat |-> lat, time |-> time, timeSet |-> timeSet,
     sample_var |-> sample_var]

\* a velocity v acting for h time units moves a particle by v * h / 4 grid cells
Move(v, h) == (v * h) \div 4

KernelResult(code, p, fset) == [code |-> code, p |-> p, fset |-> fset]

\* fourth-order Runge-Kutta: the field is sampled at t, twice at t + dt/2, at t + dt
RK4Update(p, dt, s1, s2, s3, s4) ==
    [p EXCEPT !.lon = @ + ((s1.u + 2 * s2.u + 2 * s3.u + s4.u) * dt) \div 24,
              !.lat = @ + ((s1.v + 2 * s2.v + 2 * s3.v + s4.v) * dt) \div 24]

RK4Stage4(p, dt, s1, s2, s3) ==
    Only({IF s4.code # "Success" THEN KernelResult(s4.code, p, s4.fset)
          ELSE KernelResult("Success", RK4Update(p, dt, s1, s2, s3, s4), s4.fset) :
          s4 \in {SampleUV(s3.fset, p.time + dt,
                           p.lon + Move(s3.u, dt), p.lat + Move(s3.v, dt))}})

RK4Stage3(p, dt, s1, s2) ==
    Only({IF s3.code # "Success" THEN KernelResult(s3.code, p, s3.fset)
          ELSE RK4Stage4(p, dt, s1, s2, s3) :
          s3 \in {SampleUV(s2.fset, p.time + dt \div 2,
                           p.lon + Move(s2.u, dt \div 2), p.lat + Move(s2.v, dt \div 2))}})

RK4Stage2(p, dt, s1) ==
    Only({IF s2.code # "Success" THEN KernelResult(s2.code, p, s2.fset)
          ELSE RK4Stage3(p, dt, s1, s2) :
          s2 \in {SampleUV(s1.fset, p.time + dt \div 2,
                           p.lon + Move(s1.u, dt \div 2), p.lat + Move(s1.v, dt \div 2))}})

AdvectionRK4(fset, p, dt) ==
    Only({IF s1.code # "Success" THEN KernelResult(s1.code, p, s1.fset)
          ELSE RK4Stage2(p, dt, s1) :
          s1 \in {SampleUV(fset, p.time, p.lon, p.lat)}})

\* particle.sample_var += fieldset.U[time, particle.depth, particle.lat, particle.lon]
SampleU(fset, p, dt) ==
    Only({IF s.code # "Success" THEN KernelResult(s.code, p, s.fset)
          ELSE KernelResult("Success", [p EXCEPT !.sample_var = @ + s.u], s.fset) :
          s \in {SampleUV(fset, p.time, p.lon, p.lat)}})

\* if particle.id == 0: return ErrorCode.ErrorOutOfBounds
DeleteAll(p) == "ErrorOutOfBounds"

DeleteP0(p) == IF p.id = 0 THEN "ErrorOutOfBounds" ELSE "Success"

\* pset.Kernel(DeleteP0) + AdvectionRK4: the second runs when the first succeeded
DeleteP0ThenRK4(fset, p, dt) ==
    IF DeleteP0(p) # "Success"
    THEN KernelResult(DeleteP0(p), p, fset)
    ELSE AdvectionRK4(fset, p, dt)

RunKernel(kernel, fset, p, dt) ==
    IF kernel = "AdvectionRK4" THEN AdvectionRK4(fset, p, dt)
    ELSE IF kernel = "SampleU" THEN SampleU(fset, p, dt)
    ELSE DeleteP0ThenRK4(fset, p, dt)

----------------------------------------------------------------------------
(* ParticleSet and ParticleSet.execute *)

NoRecovery == [c \in {} |-> "none"]

\* ParticleSet(fieldset, pclass, lon, lat, time); sampled: pclass has
\* Variable('sample_var', initial=fieldset.U), sampled at the start position
ParticleSet(fset, lons, lats, time, timeSet, sampled) ==
    Only({[fieldset |-> s.fset,
           pset |-> [i \in 1..Len(lons) |->
                       Particle(i - 1, lons[i], lats[i], time, timeSet, s.u)]] :
          s \in {IF sampled THEN SampleUV(fset, time, lons[1], lats[1])
                 ELSE [code |-> "Success", u |-> 0, v |-> 0, fset |-> fset]}})

\* a particle set on the field set named fieldset, with the arguments of the
\* execute call made on it; seq is the place of that call among the execute
\* calls of the test
Run(fieldset, seq, ps, mode, kernel, runtime, dt, recovery) ==
    [fieldset |-> fieldset, seq |-> seq, pset |-> ps.pset, mode |-> mode,
     kernel |-> kernel, runtime |-> runtime, dt |-> dt, recovery |-> recovery,
     status |-> "ready", error |-> "none", endtime |-> 0, steps |-> 0]

\* one particle's kernel step: success advances its time, an error code runs the
\* recovery kernel registered for it, an error code without one is raised
RECURSIVE StepParticles(_, _, _, _)
StepParticles(run, fset, todo, kept) ==
    IF todo = <<>> THEN [fset |-> fset, pset |-> kept, error |-> "none"]
    ELSE IF Head(todo).time = run.endtime
    THEN StepParticles(run, fset, Tail(todo), Append(kept, Head(todo)))
    ELSE Only({IF res.code = "Success"
               THEN StepParticles(run, res.fset, Tail(todo),
                                  Append(kept, [res.p EXCEPT !.time = @ + run.dt]))
               ELSE IF res.code \in DOMAIN run.recovery
               THEN \* DeleteParticle: particle.delete()
                    StepParticles(run, res.fset, Tail(todo), kept)
               ELSE [fset |-> res.fset, pset |-> kept \o todo, error |-> res.code] :
               res \in {RunKernel(run.kernel, fset, Head(todo), run.dt)}})

AllAtEnd(pset, endtime) == \A i \in 1..Len(pset) : pset[i].time = endtime

\* pset.execute(...) starts, after every execute call the test makes before it
\* has returned: particles without a time start at the first time of the field
\* set when dt >= 0 and at the last when dt < 0
ExecuteBegin(r) ==
    /\ r \in DOMAIN runs
    /\ runs[r].status = "ready"
    /\ \A q \in DOMAIN runs : runs[q].seq < runs[r].seq => runs[q].status = "done"
    /\ LET run == runs[r]
           fset == fieldsets[run.fieldset]
           start == IF run.dt >= 0 THEN fset.time[1] ELSE fset.time[NSlices(fset)]
           pset == [i \in 1..Len(run.pset) |->
                      IF run.pset[i].timeSet THEN run.pset[i]
                      ELSE [run.pset[i] EXCEPT !.time = start, !.timeSet = TRUE]]
           endtime == IF run.dt >= 0 THEN pset[1].time + run.runtime
                      ELSE pset[1].time - run.runtime
       IN runs' = [runs EXCEPT ![r] =
                      [run EXCEPT !.pset = pset, !.endtime = endtime, !.status = "running"]]
    /\ UNCHANGED <<nemoVars, test, fieldsets>>

\* one pass of the execute loop: every particle takes one step of dt, on the
\* field set as the calls before left it
ExecuteStep(r) ==
    /\ r \in DOMAIN runs
    /\ runs[r].status = "running"
    /\ \E res \in {StepParticles(runs[r], fieldsets[runs[r].fieldset], runs[r].pset, <<>>)} :
          /\ runs' = [runs EXCEPT ![r] =
                         [@ EXCEPT !.pset = res.pset,
                                   !.error = res.error, !.steps = @ + 1,
                                   !.status = IF res.error # "none" THEN "error"
                                              ELSE IF AllAtEnd(res.pset, runs[r].endtime)
                                                   THEN "done" ELSE "running"]]
          /\ fieldsets' = [fieldsets EXCEPT ![runs[r].fieldset] = res.fset]
    /\ UNCHANGED <<nemoVars, test>>

----------------------------------------------------------------------------
(* example_globcurrent.py.  Durations are scaled to the NFiles daily files *)
(* of the model: the ten files of the advance-time test are the first      *)
(* NFiles - 1, a seven-day run is NFiles - 3 days, the five-day run is     *)
(* NFiles - 2 days, the period of 365 days is NFiles days, and the runs of *)
(* 300 and 900 days are NFiles - 1 and 2 * NFiles + 3 days.  A time step   *)
(* of minutes or an hour is half a day.                                    *)

Days(n) == n * Day

Modes == {"scipy", "jit"}

\* the grid coordinates of the start positions (lon, lat) = (25, -35) and (20, -39)
StartA == <<40, 20>>
StartB == <<20, 12>>

GlobVariables ==
    [U |-> "eastward_eulerian_current_velocity", V |-> "northward_eulerian_current_velocity"]

set_globcurrent_fieldset_aperiodic(filename, deferred_load, use_xarray, time_periodic, seed) ==
    IF use_xarray
    THEN from_xarray_dataset(open_mfdataset(filename, seed), GlobVariables,
                             deferred_load, time_periodic)
    ELSE from_netcdf(filename, seed, GlobVariables, deferred_load,
                     IF deferred_load THEN time_periodic ELSE 0)

\* indices and timestamps are None in the tests modelled here; seed stands for
\* the contents of the data directory
set_globcurrent_fieldset(filename, deferred_load, use_xarray, time_periodic, seed) ==
    IF use_xarray
    THEN from_xarray_dataset(open_mfdataset(filename, seed), GlobVariables,
                             deferred_load, time_periodic)
    ELSE from_netcdf(filename, seed, GlobVariables, deferred_load, time_periodic)

\* files[0:10]
FirstFiles(files) == SubSeq(files, 1, NFiles - 1)

AdvanceTimeRuns(mode, dt, start, use_xarray, seed, filesSub, filesAll) ==
    LET fieldsetsub == set_globcurrent_fieldset(filesSub, TRUE, use_xarray, 0, seed)
        fieldsetall == set_globcurrent_fieldset(filesAll, FALSE, use_xarray, 0, seed)
        tsub == fieldsetsub.time[NSlices(fieldsetsub)]
        tall == fieldsetall.time[NSlices(fieldsetall)]
        psetsub == ParticleSet(fieldsetsub, <<start[1]>>, <<start[2]>>,
                               IF dt < 0 THEN tsub ELSE 0, dt < 0, FALSE)
        psetall == ParticleSet(fieldsetall, <<start[1]>>, <<start[2]>>,
                               IF dt < 0 THEN tall ELSE 0, dt < 0, FALSE)
    IN [fieldsets |-> ("fieldsetsub" :> psetsub.fieldset)
                      @@ ("fieldsetall" :> psetall.fieldset),
        runs |-> ("psetsub" :> Run("fieldsetsub", 1, psetsub, mode, "AdvectionRK4",
                                   Days(NFiles - 3), dt, NoRecovery))
                 @@ ("psetall" :> Run("fieldsetall", 2, psetall, mode, "AdvectionRK4",
                                      Days(NFiles - 3), dt, NoRecovery))]

advancetime_all_files(mode, dt, start, use_xarray, seed) ==
    AdvanceTimeRuns(mode, dt, start, use_xarray, seed, FirstFiles(GlobFiles), GlobFiles)

test_globcurrent_fieldset_advancetime(mode, dt, start, use_xarray, seed) ==
    AdvanceTimeRuns(mode, dt, start, use_xarray, seed,
                    FirstFiles(GlobFiles), FirstFiles(GlobFiles))

test_globcurrent_time_periodic(mode, rundays, seed) ==
    LET fsd == set_globcurrent_fieldset(GlobFiles, TRUE, FALSE, Days(NFiles), seed)
        fse == set_globcurrent_fieldset(GlobFiles, FALSE, FALSE, Days(NFiles), seed)
        psd == ParticleSet(fsd, <<StartA[1]>>, <<StartA[2]>>, fsd.time[1], TRUE, TRUE)
        pse == ParticleSet(fse, <<StartA[1]>>, <<StartA[2]>>, fse.time[1], TRUE, TRUE)
    IN [fieldsets |-> ("deferred" :> psd.fieldset) @@ ("eager" :> pse.fieldset),
        runs |-> ("deferred" :> Run("deferred", 1, psd, mode, "SampleU",
                                    Days(rundays), Day, NoRecovery))
                 @@ ("eager" :> Run("eager", 2, pse, mode, "SampleU",
                                    Days(rundays), Day, NoRecovery))]

test_globcurrent_xarray_vs_netcdf(dt, seed) ==
    LET fieldsetNetcdf == set_globcurrent_fieldset(GlobFiles, TRUE, FALSE, 0, seed)
        fieldsetxarray == set_globcurrent_fieldset(GlobFiles, TRUE, TRUE, 0, seed)
        psetN == ParticleSet(fieldsetNetcdf, <<StartA[1]>>, <<StartA[2]>>, 0, FALSE, FALSE)
        psetX == ParticleSet(fieldsetxarray, <<StartA[1]>>, <<StartA[2]>>, 0, FALSE, FALSE)
    IN [fieldsets |-> ("fieldsetNetcdf" :> psetN.fieldset)
                      @@ ("fieldsetxarray" :> psetX.fieldset),
        runs |-> ("psetN" :> Run("fieldsetNetcdf", 1, psetN, "jit", "AdvectionRK4",
                                 Days(NFiles - 3), dt, NoRecovery))
                 @@ ("psetX" :> Run("fieldsetxarray", 2, psetX, "jit", "AdvectionRK4",
                                    Days(NFiles - 3), dt, NoRecovery))]

\* fieldset.U.time[0] - delta(days=1).total_seconds()
ExtrapolationStartLater(fset) == fset.time[1] + Day

ExtrapolationStart(fset) == fset.time[1] - Day

test_globcurrent_time_extrapolation_error(mode, use_xarray, seed) ==
    LET fieldset == set_globcurrent_fieldset(GlobFiles, TRUE, use_xarray, 0, seed)
        pset == ParticleSet(fieldset, <<StartA[1]>>, <<StartA[2]>>,
                            ExtrapolationStart(fieldset), TRUE, FALSE)
    IN [fieldsets |-> ("fieldset" :> pset.fieldset),
        runs |-> ("pset" :> Run("fieldset", 1, pset, mode, "AdvectionRK4",
                                Day, StepDt, NoRecovery))]

\* both particle sets are JITParticle sets whatever the mode parameter is, and
\* both are built on the one field set of the test: pset1 is built, without
\* reading the field set, after pset0.execute has returned, and runs on the
\* field set as that call left it
test_globcurrent_particle_independence(mode, seed) ==
    LET fieldset == set_globcurrent_fieldset(GlobFiles, TRUE, FALSE, 0, seed)
        time0 == fieldset.time[1]
        pset0 == ParticleSet(fieldset, <<StartA[1], StartA[1]>>, <<StartA[2], StartA[2]>>,
                             time0, TRUE, FALSE)
        pset1 == ParticleSet(fieldset, <<StartA[1], StartA[1]>>, <<StartA[2], StartA[2]>>,
                             time0, TRUE, FALSE)
    IN [fieldsets |-> ("fieldset" :> fieldset),
        runs |-> ("pset0" :> Run("fieldset", 1, pset0, "jit", "DeleteP0+AdvectionRK4",
                                 Days(NFiles - 2), StepDt,
                                 [c \in {"ErrorOutOfBounds"} |-> "DeleteParticle"]))
                 @@ ("pset1" :> Run("fieldset", 2, pset1, "jit", "AdvectionRK4",
                                    Days(NFiles - 2), StepDt, NoRecovery))]

\* the parametrisations of the tests
Test(name, mode, use_xarray, dt, rundays, seed) ==
    [name |-> name, mode |-> mode, use_xarray |-> use_xarray, dt |-> dt,
     rundays |-> rundays, seed |-> seed]

Tests ==
    {Test("time_extrapolation_error", m, x, StepDt, 1, s) :
        m \in Modes, x \in BOOLEAN, s \in Seeds}
    \cup {Test("particle_independence", m, FALSE, StepDt, NFiles - 2, s) :
        m \in Modes, s \in Seeds}
    \cup {Test("fieldset_advancetime", m, x, d, NFiles - 3, s) :
        m \in Modes, x \in BOOLEAN, d \in {StepDt, -StepDt}, s \in Seeds}
    \cup {Test("xarray_vs_netcdf", "jit", FALSE, d, NFiles - 3, s) :
        d \in {-StepDt, StepDt}, s \in Seeds}
    \cup {Test("time_periodic", m, FALSE, Day, n, s) :
        m \in Modes, n \in {NFiles - 1, 2 * NFiles + 3}, s \in Seeds}

RunsOf(t) ==
    IF t.name = "time_extrapolation_error"
    THEN test_globcurrent_time_extrapolation_error(t.mode, t.use_xarray, t.seed)
    ELSE IF t.name = "particle_independence"
    THEN test_globcurrent_particle_independence(t.mode, t.seed)
    ELSE IF t.name = "fieldset_advancetime"
    THEN test_globcurrent_fieldset_advancetime(t.mode, t.dt,
             IF t.dt > 0 THEN StartA ELSE StartB, t.use_xarray, t.seed)
    ELSE IF t.name = "xarray_vs_netcdf"
    THEN test_globcurrent_xarray_vs_netcdf(t.dt, t.seed)
    ELSE test_globcurrent_time_periodic(t.mode, t.rundays, t.seed)

InitEngine ==
    /\ \E t \in Tests : \E objects \in {RunsOf(t)} :
          test = t /\ runs = objects.runs /\ fieldsets = objects.fieldsets
    /\ grids = <<>>
    /\ fs = [n \in {} |-> None]
    /\ handles = {}
    /\ library = "unread"
    /\ heap = << <<>> >>
    /\ added = <<>>
    /\ last = NoCall

NextEngine ==
    \/ \E r \in DOMAIN runs : ExecuteBegin(r)
    \/ \E r \in DOMAIN runs : ExecuteStep(r)

SpecEngine == InitEngine /\ [][NextEngine]_vars

----------------------------------------------------------------------------
(* Properties of the particle runs *)

Finished(run) == run.status \in {"done", "error"}

\* the field set of the particle set named r
FieldSetOfRun(r) == fieldsets[runs[r].fieldset]

SamePosition(p, q) == p.lon = q.lon /\ p.lat = q.lat

\* C1: AdvectionRK4 on a particle that starts one day before the first time of the
\* field set raises a time-extrapolation error, in both particle modes and with
\* both back ends: execute never returns normally.
C1_TimeExtrapolationRaises ==
    test.name = "time_extrapolation_error" =>
        LET run == runs["pset"]
        IN /\ run.status # "done"
           /\ run.steps >= 1 => (run.status = "error" /\ run.error = "ErrorTimeExtrapolation")

\* the run of the jit particle on the xarray field set has raised
C1_Witness ==
    /\ test.name = "time_extrapolation_error"
    /\ test.mode = "jit" /\ test.use_xarray
    /\ FieldSetOfRun("pset").backend = "xarray"
    /\ runs["pset"].status = "error"

\* C2: when DeleteP0 returns ErrorOutOfBounds for particle 0 and the recovery kernel
\* deletes it, the surviving particle ends where the same particle ends in a run of
\* plain AdvectionRK4 without deletion.
C2_ParticleIndependence ==
    test.name = "particle_independence" =>
        LET run0 == runs["pset0"]
            run1 == runs["pset1"]
        IN /\ (Finished(run0) /\ Finished(run1)) => run0.status = run1.status
           /\ (run0.status = "done" /\ run1.status = "done") =>
                 /\ Len(run0.pset) = 1
                 /\ Last(run0.pset).id = 1 /\ Last(run1.pset).id = 1
                 /\ SamePosition(Last(run0.pset), Last(run1.pset))

\* both runs have returned, particle 0 was deleted in the first and the survivor moved
C2_Witness ==
    /\ test.name = "particle_independence"
    /\ runs["pset0"].fieldset = runs["pset1"].fieldset
    /\ runs["pset0"].mode = "jit" /\ runs["pset1"].mode = "jit"
    /\ runs["pset0"].status = "done" /\ runs["pset1"].status = "done"
    /\ Len(runs["pset0"].pset) = 1 /\ Len(runs["pset1"].pset) = 2
    /\ ~SamePosition(Last(runs["pset0"].pset), [lon |-> StartA[1], lat |-> StartA[2]])

\* C3: seven days of AdvectionRK4 through the field set that loads its time slices
\* on demand end at the longitude reached with the field set that holds all slices,
\* forward from the first field time and backward from the last.
C3_DeferredEqualsEager ==
    test.name = "fieldset_advancetime" =>
        LET sub == runs["psetsub"]
            all == runs["psetall"]
        IN /\ (Finished(sub) /\ Finished(all)) => sub.status = all.status
           /\ (sub.status = "done" /\ all.status = "done") =>
                 sub.pset[1].lon = all.pset[1].lon

\* a backward run has returned on both field sets, the deferred one having dropped
\* the last slice, where the run started, from its window of loaded slices
C3_Witness ==
    /\ test.name = "fieldset_advancetime" /\ test.dt < 0
    /\ runs["psetsub"].status = "done" /\ runs["psetall"].status = "done"
    /\ FieldSetOfRun("psetsub").deferred /\ ~FieldSetOfRun("psetall").deferred
    /\ Len(FieldSetOfRun("psetsub").loaded) < NSlices(FieldSetOfRun("psetsub"))
    /\ NSlices(FieldSetOfRun("psetsub")) \notin Range(FieldSetOfRun("psetsub").loaded)
    /\ runs["psetsub"].pset[1].lon # StartB[1]

\* C4: the field set built from the xarray dataset and the one built from the
\* NetCDF files move a particle to the same (lon, lat), for dt > 0 and dt < 0.
C4_XarrayEqualsNetcdf ==
    test.name = "xarray_vs_netcdf" =>
        LET runN == runs["psetN"]
            runX == runs["psetX"]
        IN /\ (Finished(runN) /\ Finished(runX)) => runN.status = runX.status
           /\ (runN.status = "done" /\ runX.status = "done") =>
                 SamePosition(runN.pset[1], runX.pset[1])

\* both runs have returned and the particle has moved
C4_Witness ==
    /\ test.name = "xarray_vs_netcdf"
    /\ runs["psetN"].status = "done" /\ runs["psetX"].status = "done"
    /\ FieldSetOfRun("psetN").backend = "netcdf" /\ FieldSetOfRun("psetX").backend = "xarray"
    /\ ~SamePosition(runs["psetX"].pset[1], [lon |-> StartA[1], lat |-> StartA[2]])

\* C7: with a time-periodic field set the daily samples of U add up to the same
\* value with deferred and with eager loading, for a run shorter than the period
\* and for one that wraps around it more than once.
C7_PeriodicDeferredEqualsEager ==
    test.name = "time_periodic" =>
        LET d == runs["deferred"]
            e == runs["eager"]
        IN /\ (Finished(d) /\ Finished(e)) => d.status = e.status
           /\ (d.status = "done" /\ e.status = "done") =>
                 d.pset[1].sample_var = e.pset[1].sample_var

\* the run longer than two periods has returned on both field sets
C7_Witness ==
    /\ test.name = "time_periodic" /\ test.rundays > 2 * NFiles
    /\ runs["deferred"].status = "done" /\ runs["eager"].status = "done"
    /\ runs["deferred"].steps > 2 * NFiles
    /\ runs["deferred"].pset[1].sample_var # 0

====
